---- MODULE Spec2Model ----
(***************************************************************************)
(* State-machine model of the two aragon-cli command pipelines:            *)
(*   - `dao install`   (src/unnamed/part_000), a five-step Listr pipeline  *)
(*   - `dao token new` (token_cmds/new.js),    a two-step Listr pipeline   *)
(* and the exports.handler of each, which runs the pipeline, reports and    *)
(* exits.  A behaviour is one run of one command.  JavaScript string       *)
(* values are                                                              *)
(* records [hex, cs]: hex identifies the 20 bytes (or the text) and cs is  *)
(* the spelling, so that toLowerCase, strict equality and isAddress can be *)
(* told apart.                                                             *)
(***************************************************************************)
EXTENDS Integers, Sequences, FiniteSets, TLC

VARIABLES
    cmd,                 \* which command this run executes: "install" | "token"
    pc,                  \* position of the run
    ctx,                 \* the Listr pipeline context
    dao,                 \* install: resolved DAO address
    setPermissions,      \* install: --set-permissions ("open" or undefined)
    currentBase,         \* install: base address read from the kernel by step 2
    initPayload,         \* install: encoded init payload captured by step 3
    suppliedFactory,     \* token: the tokenFactoryAddress argument as given
    chainId,             \* token: web3.eth.net.getId()
    tokenFactoryAddress, \* token: tokenFactoryAddress after chain-id defaulting
    txs,                 \* transactions handed to the executor / web3, in order
    perm,                \* install step 5: state of each per-role transaction
    started,             \* step titles whose action has started, in order
    skipped,             \* step titles that called task.skip
    disabled,            \* step titles whose enabled-predicate was false
    thrown,              \* the step failure: <<[step, error]>> or <<>>
    rejection,           \* what run() rejected with: <<error>> or <<>>
    reported,            \* what the handler did, in order: reporter messages, process.exit
    handler,             \* the handler's promise: "pending" | "exited" | "rejected"
    logABI               \* install: what kernelABI.find returned in step 4

vars == << cmd, pc, ctx, dao, setPermissions, currentBase, initPayload,
           suppliedFactory, chainId, tokenFactoryAddress, txs, perm, started,
           skipped, disabled, thrown, rejection, reported, handler, logABI >>

---------------------------------------------------------------------------
(* Bounds *)

MaxRoles == 2
MaxLogs == 2

---------------------------------------------------------------------------
(* JavaScript values *)

V(h, c) == [hex |-> h, cs |-> c]

Undefined == V(0, "undefined")
EmptyString == V(0, "empty")

\* a falsy JS value makes `a || b` evaluate to b
Truthy(v) == v.cs \notin {"undefined", "empty"}

Or(a, b) == IF Truthy(a) THEN a ELSE b

\* String.prototype.toLowerCase on a hex string
toLowerCase(a) ==
    IF a.cs \in {"checksum", "badmix"} THEN V(a.hex, "lower") ELSE a

addressesEqualStrict(a, b) == a = b

\* another mutant of addressesEqual: the comparison never fails
addressesEqualAlways(a, b) == TRUE

addressesEqual(a, b) == toLowerCase(a) = toLowerCase(b)

ZERO_ADDRESS == V(0, "lower")
ANY_ENTITY == V(255, "lower")
NO_MANAGER == V(0, "lower")

\* optional context fields: <<>> is undefined, <<v>> is the value v
None == << >>
Some(v) == << v >>

BoundedSeq(S, n) == UNION { [1..k -> S] : k \in 0..n }

NonZeroAddresses == { V(h, c) : h \in {1, 2}, c \in {"lower", "checksum"} }
Addresses == {ZERO_ADDRESS} \cup NonZeroAddresses

---------------------------------------------------------------------------
(* Errors *)

\* an Error object: its kind and the values interpolated into its message
Err(kind, names) == [kind |-> kind, names |-> names]

RpcError(where) == Err(where, << >>)

---------------------------------------------------------------------------
(* Initial state *)

EmptyCtx ==
    [ repo |-> None, receipt |-> None, transactionPath |-> None,
      appAddress |-> None, notInitialized |-> FALSE, accounts |-> None,
      factoryAddress |-> None, factoryTxHash |-> None,
      tokenAddress |-> None, tokenTxHash |-> None ]

InitCommon ==
    /\ ctx = EmptyCtx
    /\ txs = << >>
    /\ perm = << >>
    /\ started = << >>
    /\ skipped = {}
    /\ disabled = {}
    /\ thrown = None
    /\ rejection = None
    /\ reported = << >>
    /\ handler = "pending"
    /\ logABI = "unread"
    /\ currentBase = Undefined
    /\ initPayload = Undefined
    /\ tokenFactoryAddress = Undefined

InitInstall ==
    /\ cmd = "install"
    /\ pc = "i_task"
    /\ dao = Undefined
    /\ setPermissions \in {"open", "undefined"}
    /\ suppliedFactory = Undefined
    /\ chainId = 0

---------------------------------------------------------------------------
(* The Listr runner *)

InstallSteps == << "Fetching repo", "Checking installed version",
                   "Deploying app instance", "Fetching deployed app",
                   "Set permissions" >>

TokenSteps == << "Deploy the MiniMeTokenFactory contract",
                 "Deploy the MiniMeToken contract" >>

Steps == IF cmd = "install" THEN InstallSteps ELSE TokenSteps

StepIndex(title) == CHOOSE i \in 1..Len(Steps) : Steps[i] = title

\* a mutant of Reject: the runner wraps the step's error in a new one
RejectWrapped(step, err) ==
    /\ thrown' = Some([step |-> step, error |-> err])
    /\ rejection' = Some(Err("ListrError", << >>))
    /\ pc' = "failed"

\* a step's action threw, or the promise it returned rejected: the runner
\* runs no further step and run() rejects with that error
Reject(step, err) ==
    /\ thrown' = Some([step |-> step, error |-> err])
    /\ rejection' = Some(err)
    /\ pc' = "failed"

\* a mutant of Start: the step is recorded ahead of the steps before it
StartUnordered(step) == started' = << step >> \o started

\* the runner calls the task of a step
Start(step) == started' = Append(started, step)

---------------------------------------------------------------------------
(* dao install: exports.task preamble *)

InstallTask ==
    /\ cmd = "install" /\ pc = "i_task"
    /\ \E d \in { V(1, "lower"), V(1, "checksum") } : dao' = d
    /\ pc' = "i_fetch"
    /\ UNCHANGED << cmd, ctx, setPermissions, currentBase, initPayload,
                    suppliedFactory, chainId, tokenFactoryAddress, txs,
                    perm, started, skipped, disabled, thrown, rejection,
                    reported, handler, logABI >>

\* APM() or resolveEnsDomain() rejects: no pipeline is built
InstallTaskFail ==
    /\ cmd = "install" /\ pc = "i_task"
    /\ pc' = "task_rejected"
    /\ UNCHANGED << cmd, ctx, dao, setPermissions, currentBase,
                    initPayload, suppliedFactory, chainId,
                    tokenFactoryAddress, txs, perm, started, skipped,
                    disabled, thrown, rejection,
                    reported, handler, logABI >>

---------------------------------------------------------------------------
(* dao install, step 1: Fetching repo (getRepoTask) *)

RoleLists == { [i \in 1..k |-> V(i, "bytes32")] : k \in 0..MaxRoles }

Repos ==
    { [appId |-> V(7, "bytes32"), contractAddress |-> a, roles |-> r] :
        a \in { V(1, "checksum") },
        r \in {None} \cup { Some(l) : l \in RoleLists } }

FetchRepo ==
    /\ cmd = "install" /\ pc = "i_fetch"
    /\ Start(InstallSteps[1])
    /\ \E repo \in Repos : ctx' = [ctx EXCEPT !.repo = Some(repo)]
    /\ pc' = "i_check"
    /\ UNCHANGED << cmd, dao, setPermissions, currentBase, initPayload,
                    suppliedFactory, chainId, tokenFactoryAddress, txs,
                    perm, skipped, disabled, thrown, rejection,
                    reported, handler, logABI >>

FetchRepoFail ==
    /\ cmd = "install" /\ pc = "i_fetch"
    /\ Start(InstallSteps[1])
    /\ Reject(InstallSteps[1], RpcError("getRepo"))
    /\ UNCHANGED << cmd, ctx, dao, setPermissions, currentBase,
                    initPayload, suppliedFactory, chainId,
                    tokenFactoryAddress, txs, perm, skipped, disabled,
                    reported, handler, logABI >>

---------------------------------------------------------------------------
(* dao install, step 2: Checking installed version *)

VersionMismatchError(apmRepo, base) ==
    Err("Cannot install app on a different version", << apmRepo, base >>)

ApmRepoName == V(9, "name")

\* a mutant of IsFirstInstance: an unset base is not recognised
IsFirstInstanceNever(base) == FALSE

\* currentBase === ZERO_ADDRESS
IsFirstInstance(base) == base = ZERO_ADDRESS

CheckInstalledVersion ==
    /\ cmd = "install" /\ pc = "i_check"
    /\ Start(InstallSteps[2])
    /\ \E base \in Addresses :
        /\ currentBase' = base
        /\ IF IsFirstInstance(base)
           THEN /\ skipped' = skipped \cup {InstallSteps[2]}
                /\ pc' = "i_deploy"
                /\ UNCHANGED << thrown, rejection >>
           ELSE IF ~addressesEqual(base, ctx.repo[1].contractAddress)
           THEN /\ Reject(InstallSteps[2],
                          VersionMismatchError(ApmRepoName, base))
                /\ UNCHANGED skipped
           ELSE /\ pc' = "i_deploy"
                /\ UNCHANGED << skipped, thrown, rejection >>
    /\ UNCHANGED << cmd, ctx, dao, setPermissions, initPayload,
                    suppliedFactory, chainId, tokenFactoryAddress, txs,
                    perm, disabled,
                    reported, handler, logABI >>

\* APP_BASES_NAMESPACE().call() or getApp().call() rejects
CheckInstalledVersionFail ==
    /\ cmd = "install" /\ pc = "i_check"
    /\ Start(InstallSteps[2])
    /\ Reject(InstallSteps[2], RpcError("kernel.call"))
    /\ UNCHANGED << cmd, ctx, dao, setPermissions, currentBase,
                    initPayload, suppliedFactory, chainId,
                    tokenFactoryAddress, txs, perm, skipped, disabled,
                    reported, handler, logABI >>

---------------------------------------------------------------------------
(* dao install, step 3: Deploying app instance *)

EmptyPayload == V(0, "0x")
InitPayloads == { EmptyPayload, V(1, "calldata") }

\* fnArgs of the newAppInstance call, built by the getTransactionPath closure
NewAppInstanceArgs(repo, payload) ==
    << repo.appId, repo.contractAddress, payload, V(0, "false") >>

Tx(method, args) == [method |-> method, args |-> args]

DeployAppInstance ==
    /\ cmd = "install" /\ pc = "i_deploy"
    /\ Start(InstallSteps[3])
    /\ \E payload \in InitPayloads :
        /\ initPayload' = payload
        /\ ctx' = IF payload = EmptyPayload
                  THEN [ctx EXCEPT !.notInitialized = TRUE]
                  ELSE ctx
    /\ pc' = "i_exec"
    /\ UNCHANGED << cmd, dao, setPermissions, currentBase, suppliedFactory,
                    chainId, tokenFactoryAddress, txs, perm, skipped,
                    disabled, thrown, rejection,
                    reported, handler, logABI >>

\* execTask, first subtask: the transaction path is computed through the
\* getTransactionPath closure and kept in the context
ExecTransactionPath ==
    /\ cmd = "install" /\ pc = "i_exec"
    /\ LET tx == Tx("newAppInstance",
                    NewAppInstanceArgs(ctx.repo[1], initPayload))
       IN /\ txs' = Append(txs, tx)
          /\ \E setsAccounts \in BOOLEAN :
               ctx' = [ctx EXCEPT
                         !.transactionPath = Some(<< tx >>),
                         !.accounts = IF setsAccounts
                                      THEN Some(<< V(3, "checksum") >>)
                                      ELSE @]
    /\ pc' = "i_send"
    /\ UNCHANGED << cmd, dao, setPermissions, currentBase, initPayload,
                    suppliedFactory, chainId, tokenFactoryAddress, perm,
                    started, skipped, disabled, thrown, rejection,
                    reported, handler, logABI >>

NewAppProxyTopic == V(1, "topic")
OtherTopic == V(2, "topic")

\* NewAppProxy logs of the DAO, each encoding a proxy address in its data,
\* a NewAppProxy log of another kernel, and a log of another event emitted
\* by the DAO
Logs ==
    { [topic |-> NewAppProxyTopic, address |-> V(1, "lower"),
       data |-> V(p, "abi")] : p \in {4, 5} }
    \cup
    { [topic |-> NewAppProxyTopic, address |-> V(2, "lower"),
       data |-> V(5, "abi")],
      [topic |-> OtherTopic, address |-> V(1, "lower"),
       data |-> V(6, "abi")] }

Receipts == { [logs |-> l] : l \in BoundedSeq(Logs, MaxLogs) }

\* execTask, second subtask: the transaction is mined and its receipt kept
ExecSendTransaction ==
    /\ cmd = "install" /\ pc = "i_send"
    /\ \E receipt \in Receipts : ctx' = [ctx EXCEPT !.receipt = Some(receipt)]
    /\ pc' = "i_decode"
    /\ UNCHANGED << cmd, dao, setPermissions, currentBase, initPayload,
                    suppliedFactory, chainId, tokenFactoryAddress, txs,
                    perm, started, skipped, disabled, thrown, rejection,
                    reported, handler, logABI >>

\* either subtask of execTask fails: step 3's promise rejects
ExecFail ==
    /\ cmd = "install" /\ pc \in {"i_exec", "i_send"}
    /\ Reject(InstallSteps[3], RpcError("execTask"))
    /\ UNCHANGED << cmd, ctx, dao, setPermissions, currentBase,
                    initPayload, suppliedFactory, chainId,
                    tokenFactoryAddress, txs, perm, started, skipped,
                    disabled,
                    reported, handler, logABI >>

---------------------------------------------------------------------------
(* dao install, step 4: Fetching deployed app *)

\* a mutant of IsDeployLog: the emitting address is not compared
IsDeployLogAnyAddress(log, logTopic, daoAddr) == log.topic = logTopic

\* the predicate given to ctx.receipt.logs.find
IsDeployLog(log, logTopic, daoAddr) ==
    log.topic = logTopic /\ addressesEqual(daoAddr, log.address)

\* ctx.receipt.logs.find(...): index of the first deploy log, 0 if none
FindDeployLog(logs, logTopic, daoAddr) ==
    IF \E i \in 1..Len(logs) : IsDeployLog(logs[i], logTopic, daoAddr)
    THEN CHOOSE i \in 1..Len(logs) :
            /\ IsDeployLog(logs[i], logTopic, daoAddr)
            /\ \A j \in 1..(i - 1) : ~IsDeployLog(logs[j], logTopic, daoAddr)
    ELSE 0

\* web3.eth.abi.decodeLog: the proxy address comes back checksummed
decodeLog(data) == [proxy |-> V(data.hex, "checksum")]

MissingLogABIError ==
    Err("Kernel ABI in aragon.js doesnt contain NewAppProxy log", << >>)

\* a mutant of LogABIFound: a missing entry is not noticed
LogABIFoundAlways(found) == TRUE

\* `if (!logABI)`: kernelABI.find returned an entry
LogABIFound(found) == found = "NewAppProxy"

FetchDeployedApp ==
    /\ cmd = "install" /\ pc = "i_decode"
    /\ Start(InstallSteps[4])
    /\ \E found \in {"NewAppProxy", "undefined"} :
        /\ logABI' = found
        /\ IF ~LogABIFound(found)
           THEN /\ Reject(InstallSteps[4], MissingLogABIError)
                /\ UNCHANGED << ctx, skipped >>
           ELSE LET logs == ctx.receipt[1].logs
                    k == FindDeployLog(logs, NewAppProxyTopic, dao)
                IN IF k = 0
                   THEN /\ skipped' = skipped \cup {InstallSteps[4]}
                        /\ pc' = "i_perm"
                        /\ UNCHANGED << ctx, thrown, rejection >>
                   ELSE /\ ctx' = [ctx EXCEPT
                                     !.appAddress =
                                         Some(decodeLog(logs[k].data).proxy)]
                        /\ pc' = "i_perm"
                        /\ UNCHANGED << skipped, thrown, rejection >>
    /\ UNCHANGED << cmd, dao, setPermissions, currentBase, initPayload,
                    suppliedFactory, chainId, tokenFactoryAddress, txs,
                    perm, disabled, reported, handler >>

---------------------------------------------------------------------------
(* dao install, step 5: Set permissions *)

\* a mutant of SetPermissionsEnabled: the permissions mode is not looked at
SetPermissionsEnabledAnyMode(c) == c.appAddress # None

\* enabled: ctx => setPermissions === 'open' && ctx.appAddress
SetPermissionsEnabled(c) == setPermissions = "open" /\ c.appAddress # None

\* a mutant of NoRoles: an empty role list is let through
NoRolesOnlyMissing(repo) == repo.roles = None

\* !ctx.repo.roles || ctx.repo.roles.length === 0
NoRoles(repo) == repo.roles = None \/ Len(repo.roles[1]) = 0

MissingRolesError ==
    Err("You have no roles defined in your arapp.json", << >>)

RolesOf(repo) == IF repo.roles = None THEN << >> ELSE repo.roles[1]

\* a mutant of Permissions: the manager is the grantee instead of NO_MANAGER
PermissionsManaged(c) ==
    [ i \in 1..Len(RolesOf(c.repo[1])) |->
        << ANY_ENTITY, c.appAddress[1], RolesOf(c.repo[1])[i], ANY_ENTITY >> ]

\* ctx.repo.roles.map(role => [ANY_ENTITY, ctx.appAddress, role.bytes, NO_MANAGER])
Permissions(c) ==
    [ i \in 1..Len(RolesOf(c.repo[1])) |->
        << ANY_ENTITY, c.appAddress[1], RolesOf(c.repo[1])[i], NO_MANAGER >> ]

PermissionError(i) == Err("createPermission failed", << V(i, "index") >>)

\* a mutant of PromiseAllResolved: one fulfilled element is enough
PromiseAnyResolved(p) ==
    Len(p) = 0 \/ \E i \in 1..Len(p) : p[i].status = "fulfilled"

\* Promise.all fulfils once every element has fulfilled
PromiseAllResolved(p) == \A i \in 1..Len(p) : p[i].status = "fulfilled"

SetPermissionsDisabled ==
    /\ cmd = "install" /\ pc = "i_perm"
    /\ ~SetPermissionsEnabled(ctx)
    /\ disabled' = disabled \cup {InstallSteps[5]}
    /\ pc' = "done"
    /\ UNCHANGED << cmd, ctx, dao, setPermissions, currentBase,
                    initPayload, suppliedFactory, chainId,
                    tokenFactoryAddress, txs, perm, started, skipped,
                    thrown, rejection,
                    reported, handler, logABI >>

\* the action up to and including the synchronous permissions.map that
\* starts one execTask per role
SetPermissions ==
    /\ cmd = "install" /\ pc = "i_perm"
    /\ SetPermissionsEnabled(ctx)
    /\ Start(InstallSteps[5])
    /\ IF NoRoles(ctx.repo[1])
       THEN /\ Reject(InstallSteps[5], MissingRolesError)
            /\ UNCHANGED << ctx, perm >>
       ELSE /\ ctx' = IF ctx.accounts = None
                      THEN [ctx EXCEPT
                              !.accounts = Some(<< V(3, "checksum") >>)]
                      ELSE ctx
            /\ perm' = [ i \in 1..Len(Permissions(ctx)) |->
                           [params |-> Permissions(ctx)[i],
                            status |-> "started", late |-> FALSE] ]
            /\ pc' = IF PromiseAllResolved(perm') THEN "done"
                     ELSE "i_perm_wait"
            /\ UNCHANGED << thrown, rejection >>
    /\ UNCHANGED << cmd, dao, setPermissions, currentBase, initPayload,
                    suppliedFactory, chainId, tokenFactoryAddress, txs,
                    skipped, disabled,
                    reported, handler, logABI >>

\* web3.eth.getAccounts() rejects before any execTask is started
SetPermissionsAccountsFail ==
    /\ cmd = "install" /\ pc = "i_perm"
    /\ SetPermissionsEnabled(ctx)
    /\ ~NoRoles(ctx.repo[1])
    /\ ctx.accounts = None
    /\ Start(InstallSteps[5])
    /\ Reject(InstallSteps[5], RpcError("getAccounts"))
    /\ UNCHANGED << cmd, ctx, dao, setPermissions, currentBase,
                    initPayload, suppliedFactory, chainId,
                    tokenFactoryAddress, txs, perm, skipped, disabled,
                    reported, handler, logABI >>

\* a mutant of PermissionTxPath: the per-role task list runs on the
\* pipeline's context and leaves its own transaction path there
PermissionTxPathSharedCtx(i) ==
    /\ cmd = "install" /\ pc \in {"i_perm_wait", "failed"}
    /\ pc = "failed" => handler = "rejected"
    /\ i \in 1..Len(perm) /\ perm[i].status = "started"
    /\ txs' = Append(txs, Tx("createPermission", perm[i].params))
    /\ perm' = [perm EXCEPT ![i].status = "sent"]
    /\ ctx' = [ctx EXCEPT !.transactionPath =
                             Some(<< Tx("createPermission", perm[i].params) >>)]
    /\ UNCHANGED << cmd, pc, dao, setPermissions, currentBase,
                    initPayload, suppliedFactory, chainId,
                    tokenFactoryAddress, started, skipped, disabled,
                    thrown, rejection, reported, handler, logABI >>

\* the i-th execTask computes its path: getACLTransactionPath is asked for
\* createPermission(params); tasks.run() is given no context, so the task
\* list runs on a context of its own
PermissionTxPath(i) ==
    /\ cmd = "install" /\ pc \in {"i_perm_wait", "failed"}
    /\ pc = "failed" => handler = "rejected"
    /\ i \in 1..Len(perm) /\ perm[i].status = "started"
    /\ txs' = Append(txs, Tx("createPermission", perm[i].params))
    /\ perm' = [perm EXCEPT ![i].status = "sent"]
    /\ UNCHANGED << cmd, pc, ctx, dao, setPermissions, currentBase,
                    initPayload, suppliedFactory, chainId,
                    tokenFactoryAddress, started, skipped, disabled,
                    thrown, rejection,
                    reported, handler, logABI >>

\* the i-th transaction is mined: its promise fulfils, and with the last
\* one Promise.all fulfils and the step completes
PermissionTxMined(i) ==
    /\ cmd = "install" /\ pc \in {"i_perm_wait", "failed"}
    /\ pc = "failed" => handler = "rejected"
    /\ i \in 1..Len(perm) /\ perm[i].status = "sent"
    /\ perm' = [perm EXCEPT ![i].status = "fulfilled",
                            ![i].late = (pc = "failed")]
    /\ pc' = IF pc = "i_perm_wait" /\ PromiseAllResolved(perm')
             THEN "done" ELSE pc
    /\ UNCHANGED << cmd, ctx, dao, setPermissions, currentBase,
                    initPayload, suppliedFactory, chainId,
                    tokenFactoryAddress, txs, started, skipped, disabled,
                    thrown, rejection,
                    reported, handler, logABI >>

\* a mutant of PermissionTxFail: the first failure also cancels the
\* per-role transactions that are still under way
PermissionTxFailCancelsOthers(i) ==
    /\ cmd = "install" /\ pc \in {"i_perm_wait", "failed"}
    /\ pc = "failed" => handler = "rejected"
    /\ i \in 1..Len(perm) /\ perm[i].status \in {"started", "sent"}
    /\ perm' = [ j \in 1..Len(perm) |->
                   IF j = i \/ perm[j].status \in {"started", "sent"}
                   THEN [perm[j] EXCEPT !.status = "rejected"]
                   ELSE perm[j] ]
    /\ IF pc = "i_perm_wait"
       THEN Reject(InstallSteps[5], PermissionError(i))
       ELSE UNCHANGED << pc, thrown, rejection >>
    /\ UNCHANGED << cmd, ctx, dao, setPermissions, currentBase,
                    initPayload, suppliedFactory, chainId,
                    tokenFactoryAddress, txs, started, skipped, disabled,
                    reported, handler, logABI >>

\* the i-th execTask fails: Promise.all rejects with the first rejection
\* and ignores the later ones
PermissionTxFail(i) ==
    /\ cmd = "install" /\ pc \in {"i_perm_wait", "failed"}
    /\ pc = "failed" => handler = "rejected"
    /\ i \in 1..Len(perm) /\ perm[i].status \in {"started", "sent"}
    /\ perm' = [perm EXCEPT ![i].status = "rejected"]
    /\ IF pc = "i_perm_wait"
       THEN Reject(InstallSteps[5], PermissionError(i))
       ELSE UNCHANGED << pc, thrown, rejection >>
    /\ UNCHANGED << cmd, ctx, dao, setPermissions, currentBase,
                    initPayload, suppliedFactory, chainId,
                    tokenFactoryAddress, txs, started, skipped, disabled,
                    reported, handler, logABI >>

---------------------------------------------------------------------------
(* dao token new: exports.task preamble *)

MAINNET_MINIME_TOKEN_FACTORY == V(16, "lower")
RINKEBY_MINIME_TOKEN_FACTORY == V(17, "checksum")

\* web3Utils.isAddress: 40 hex digits, all of one case or with a valid
\* checksum; anything else (undefined included) is no address
isAddress(v) == v.cs \in {"lower", "upper", "checksum"}

ChainIds == {1, 4, 5}

SuppliedFactories ==
    { Undefined, EmptyString, V(20, "text"), MAINNET_MINIME_TOKEN_FACTORY,
      V(18, "lower"), V(18, "checksum"), V(18, "badmix") }

\* a mutant of DefaultFactory: on mainnet the constant always wins
DefaultFactoryForced(chain, supplied) ==
    IF chain = 1 THEN MAINNET_MINIME_TOKEN_FACTORY
    ELSE IF chain = 4 THEN Or(supplied, RINKEBY_MINIME_TOKEN_FACTORY)
    ELSE supplied

\* the two `if (chainId === n) tokenFactoryAddress = tokenFactoryAddress || C`
DefaultFactory(chain, supplied) ==
    LET a == IF chain = 1 THEN Or(supplied, MAINNET_MINIME_TOKEN_FACTORY)
             ELSE supplied
    IN IF chain = 4 THEN Or(a, RINKEBY_MINIME_TOKEN_FACTORY) ELSE a

InitToken ==
    /\ cmd = "token"
    /\ pc = "t_task"
    /\ dao = Undefined
    /\ setPermissions = "undefined"
    /\ suppliedFactory \in SuppliedFactories
    /\ chainId \in ChainIds

TokenTask ==
    /\ cmd = "token" /\ pc = "t_task"
    /\ tokenFactoryAddress' = DefaultFactory(chainId, suppliedFactory)
    /\ pc' = "t_factory"
    /\ UNCHANGED << cmd, ctx, dao, setPermissions, currentBase, initPayload,
                    suppliedFactory, chainId, txs, perm, started, skipped,
                    disabled, thrown, rejection,
                    reported, handler, logABI >>

\* getAccounts() or getId() rejects: no pipeline is built
TokenTaskFail ==
    /\ cmd = "token" /\ pc = "t_task"
    /\ pc' = "task_rejected"
    /\ UNCHANGED << cmd, ctx, dao, setPermissions, currentBase, initPayload,
                    suppliedFactory, chainId, tokenFactoryAddress, txs, perm,
                    started, skipped, disabled, thrown, rejection,
                    reported, handler, logABI >>

---------------------------------------------------------------------------
(* dao token new, step 1: Deploy the MiniMeTokenFactory contract *)

\* a mutant of FactoryEnabled: any non-empty value counts as an address
FactoryEnabledFalsy(tfa) == ~Truthy(tfa)

\* enabled: () => !web3Utils.isAddress(tokenFactoryAddress)
FactoryEnabled(tfa) == ~isAddress(tfa)

DeployedAddresses == { V(21, "checksum"), V(22, "checksum") }

FactoryDisabled ==
    /\ cmd = "token" /\ pc = "t_factory"
    /\ ~FactoryEnabled(tokenFactoryAddress)
    /\ disabled' = disabled \cup {TokenSteps[1]}
    /\ pc' = "t_token"
    /\ UNCHANGED << cmd, ctx, dao, setPermissions, currentBase, initPayload,
                    suppliedFactory, chainId, tokenFactoryAddress, txs, perm,
                    started, skipped, thrown, rejection,
                    reported, handler, logABI >>

\* the action up to deployTx.send(): the deployment is submitted
FactoryDeploy ==
    /\ cmd = "token" /\ pc = "t_factory"
    /\ FactoryEnabled(tokenFactoryAddress)
    /\ Start(TokenSteps[1])
    /\ txs' = Append(txs, Tx("deploy MiniMeTokenFactory", << >>))
    /\ pc' = "t_factory_sent"
    /\ UNCHANGED << cmd, ctx, dao, setPermissions, currentBase, initPayload,
                    suppliedFactory, chainId, tokenFactoryAddress, perm,
                    skipped, disabled, thrown, rejection,
                    reported, handler, logABI >>

\* estimateGas() or getRecommendedGasLimit() rejects before send()
FactoryGasFail ==
    /\ cmd = "token" /\ pc = "t_factory"
    /\ FactoryEnabled(tokenFactoryAddress)
    /\ Start(TokenSteps[1])
    /\ Reject(TokenSteps[1], RpcError("estimateGas"))
    /\ UNCHANGED << cmd, ctx, dao, setPermissions, currentBase, initPayload,
                    suppliedFactory, chainId, tokenFactoryAddress, txs, perm,
                    skipped, disabled,
                    reported, handler, logABI >>

\* .on('transactionHash', ...)
FactoryTransactionHash ==
    /\ cmd = "token" /\ pc = "t_factory_sent"
    /\ ctx' = [ctx EXCEPT !.factoryTxHash = Some(V(31, "hash"))]
    /\ pc' = "t_factory_hashed"
    /\ UNCHANGED << cmd, dao, setPermissions, currentBase, initPayload,
                    suppliedFactory, chainId, tokenFactoryAddress, txs, perm,
                    started, skipped, disabled, thrown, rejection,
                    reported, handler, logABI >>

\* .on('receipt', ...), after which deployPromise fulfils
FactoryReceipt ==
    /\ cmd = "token" /\ pc = "t_factory_hashed"
    /\ \E a \in DeployedAddresses :
         ctx' = [ctx EXCEPT !.factoryAddress = Some(a)]
    /\ pc' = "t_token"
    /\ UNCHANGED << cmd, dao, setPermissions, currentBase, initPayload,
                    suppliedFactory, chainId, tokenFactoryAddress, txs, perm,
                    started, skipped, disabled, thrown, rejection,
                    reported, handler, logABI >>

\* .on('error', ...): deployPromise rejects with the error
FactoryError ==
    /\ cmd = "token" /\ pc \in {"t_factory_sent", "t_factory_hashed"}
    /\ Reject(TokenSteps[1], RpcError("factory deployment"))
    /\ UNCHANGED << cmd, ctx, dao, setPermissions, currentBase, initPayload,
                    suppliedFactory, chainId, tokenFactoryAddress, txs, perm,
                    started, skipped, disabled,
                    reported, handler, logABI >>

---------------------------------------------------------------------------
(* dao token new, step 2: Deploy the MiniMeToken contract *)

\* a mutant of TokenFactoryArgument: the freshly deployed factory is ignored
TokenFactoryArgumentStale(c, tfa) == tfa

\* ctx.factoryAddress || tokenFactoryAddress
TokenFactoryArgument(c, tfa) ==
    IF c.factoryAddress # None THEN Or(c.factoryAddress[1], tfa) ELSE tfa

TokenArguments(c, tfa) ==
    << TokenFactoryArgument(c, tfa), ZERO_ADDRESS, V(0, "number"),
       V(41, "tokenName"), V(18, "number"), V(42, "symbol"),
       V(1, "boolean") >>

TokenDeploy ==
    /\ cmd = "token" /\ pc = "t_token"
    /\ Start(TokenSteps[2])
    /\ txs' = Append(txs, Tx("deploy MiniMeToken",
                             TokenArguments(ctx, tokenFactoryAddress)))
    /\ pc' = "t_token_sent"
    /\ UNCHANGED << cmd, ctx, dao, setPermissions, currentBase, initPayload,
                    suppliedFactory, chainId, tokenFactoryAddress, perm,
                    skipped, disabled, thrown, rejection,
                    reported, handler, logABI >>

TokenGasFail ==
    /\ cmd = "token" /\ pc = "t_token"
    /\ Start(TokenSteps[2])
    /\ Reject(TokenSteps[2], RpcError("estimateGas"))
    /\ UNCHANGED << cmd, ctx, dao, setPermissions, currentBase, initPayload,
                    suppliedFactory, chainId, tokenFactoryAddress, txs, perm,
                    skipped, disabled,
                    reported, handler, logABI >>

TokenTransactionHash ==
    /\ cmd = "token" /\ pc = "t_token_sent"
    /\ ctx' = [ctx EXCEPT !.tokenTxHash = Some(V(32, "hash"))]
    /\ pc' = "t_token_hashed"
    /\ UNCHANGED << cmd, dao, setPermissions, currentBase, initPayload,
                    suppliedFactory, chainId, tokenFactoryAddress, txs, perm,
                    started, skipped, disabled, thrown, rejection,
                    reported, handler, logABI >>

TokenReceipt ==
    /\ cmd = "token" /\ pc = "t_token_hashed"
    /\ \E a \in DeployedAddresses :
         ctx' = [ctx EXCEPT !.tokenAddress = Some(a)]
    /\ pc' = "done"
    /\ UNCHANGED << cmd, dao, setPermissions, currentBase, initPayload,
                    suppliedFactory, chainId, tokenFactoryAddress, txs, perm,
                    started, skipped, disabled, thrown, rejection,
                    reported, handler, logABI >>

TokenError ==
    /\ cmd = "token" /\ pc \in {"t_token_sent", "t_token_hashed"}
    /\ Reject(TokenSteps[2], RpcError("token deployment"))
    /\ UNCHANGED << cmd, ctx, dao, setPermissions, currentBase, initPayload,
                    suppliedFactory, chainId, tokenFactoryAddress, txs, perm,
                    started, skipped, disabled,
                    reported, handler, logABI >>

---------------------------------------------------------------------------
(* exports.handler of both commands *)

\* one reporter call: its level, its fixed text and the values interpolated
Msg(level, text, names) == [level |-> level, text |-> text, names |-> names]

\* process.exit(), recorded after the messages that preceded it
ProcessExit == Msg("exit", "process.exit", << >>)

AssignPermissionsWarning ==
    Msg("warning", "you will need to assign permissions to it", << >>)

NotInitializedWarning == Msg("warning", "App could not be initialized", << >>)

\* a mutant of InstalledMessage: success is reported whatever was decoded
InstalledMessageAlways(c) ==
    Msg("success", "Installed at",
        << ApmRepoName, IF c.appAddress # None THEN c.appAddress[1]
                        ELSE Undefined >>)

\* if (ctx.appAddress) reporter.success(...) else reporter.warning(...)
InstalledMessage(c) ==
    IF c.appAddress # None /\ Truthy(c.appAddress[1])
    THEN Msg("success", "Installed at", << ApmRepoName, c.appAddress[1] >>)
    ELSE AssignPermissionsWarning

\* a mutant of NotInitializedMessages: the warning is never printed
NotInitializedMessagesNone(c) == << >>

\* if (ctx.notInitialized) reporter.warning(...)
NotInitializedMessages(c) ==
    IF c.notInitialized THEN << NotInitializedWarning >> ELSE << >>

\* the reporter calls of the install handler's then-callback, in order
InstallReport(c) ==
    << Msg("info", "Successfully executed", << c.transactionPath[1][1] >>),
       InstalledMessage(c) >>
    \o NotInitializedMessages(c)

\* the reporter calls of the token handler's then-callback, in order
TokenReport(c) ==
    << Msg("success", "Successfully deployed the token at",
           << c.tokenAddress[1] >>),
       Msg("info", "Token transaction hash", << c.tokenTxHash[1] >>) >>
    \o (IF c.factoryAddress # None
        THEN << Msg("success", "Successfully deployed the token factory at",
                    << c.factoryAddress[1] >>),
                Msg("info", "Token factory transaction hash",
                    << c.factoryTxHash[1] >>) >>
        ELSE << >>)

\* a mutant of HandlerThen: the callback returns without process.exit()
HandlerThenNoExit(report) ==
    /\ reported' = report
    /\ handler' = "exited"

\* task.run().then(ctx => { ...reporter calls...; process.exit() })
HandlerThen(report) ==
    /\ reported' = report \o << ProcessExit >>
    /\ handler' = "exited"

InstallHandlerThen ==
    /\ cmd = "install" /\ pc = "done" /\ handler = "pending"
    /\ HandlerThen(InstallReport(ctx))
    /\ UNCHANGED << cmd, pc, ctx, dao, setPermissions, currentBase,
                    initPayload, suppliedFactory, chainId,
                    tokenFactoryAddress, txs, perm, started, skipped,
                    disabled, thrown, rejection, logABI >>

TokenHandlerThen ==
    /\ cmd = "token" /\ pc = "done" /\ handler = "pending"
    /\ HandlerThen(TokenReport(ctx))
    /\ UNCHANGED << cmd, pc, ctx, dao, setPermissions, currentBase,
                    initPayload, suppliedFactory, chainId,
                    tokenFactoryAddress, txs, perm, started, skipped,
                    disabled, thrown, rejection, logABI >>

\* exports.task or task.run() rejected: `.then` has no rejection callback
\* and the handler has no catch, so the promise the handler returned rejects
\* with the same error; no reporter call is made and process.exit() is not
\* reached.  The rejection travels from the failed step to the handler's
\* promise through promise reactions alone, so it gets there before the
\* event of any per-role transaction still under way is delivered
HandlerRejected ==
    /\ pc \in {"failed", "task_rejected"} /\ handler = "pending"
    /\ handler' = "rejected"
    /\ UNCHANGED << cmd, pc, ctx, dao, setPermissions, currentBase,
                    initPayload, suppliedFactory, chainId,
                    tokenFactoryAddress, txs, perm, started, skipped,
                    disabled, thrown, rejection, reported, logABI >>

---------------------------------------------------------------------------

Init == InitCommon /\ (InitInstall \/ InitToken)

Next ==
    \/ InstallTask
    \/ InstallTaskFail
    \/ FetchRepo
    \/ FetchRepoFail
    \/ CheckInstalledVersion
    \/ CheckInstalledVersionFail
    \/ DeployAppInstance
    \/ ExecTransactionPath
    \/ ExecSendTransaction
    \/ ExecFail
    \/ FetchDeployedApp
    \/ SetPermissionsDisabled
    \/ SetPermissions
    \/ SetPermissionsAccountsFail
    \/ \E i \in 1..MaxRoles : PermissionTxPath(i)
    \/ \E i \in 1..MaxRoles : PermissionTxMined(i)
    \/ \E i \in 1..MaxRoles : PermissionTxFail(i)
    \/ TokenTask
    \/ TokenTaskFail
    \/ FactoryDisabled
    \/ FactoryDeploy
    \/ FactoryGasFail
    \/ FactoryTransactionHash
    \/ FactoryReceipt
    \/ FactoryError
    \/ TokenDeploy
    \/ TokenGasFail
    \/ TokenTransactionHash
    \/ TokenReceipt
    \/ TokenError
    \/ InstallHandlerThen
    \/ TokenHandlerThen
    \/ HandlerRejected

Spec == Init /\ [][Next]_vars

---------------------------------------------------------------------------
(* Vocabulary of the properties *)

HasStarted(step) == \E i \in 1..Len(started) : started[i] = step

TxsOf(method) == { i \in 1..Len(txs) : txs[i].method = method }

\* the same 20 bytes, whatever the spelling
SameAddress(a, b) == a.hex = b.hex

Finished == pc \in {"done", "failed"}

\* the step failed, if any
FailedStep == IF thrown = None THEN "" ELSE thrown[1].step

---------------------------------------------------------------------------
(* C1 *)

\* C1: in both pipelines, once a step's action has thrown or its promise
\* has rejected, no later step has started or ever starts, and run() has
\* rejected with exactly the error of that step.
C1_FailureHaltsAndPropagates ==
    /\ (thrown = None) <=> (rejection = None)
    /\ thrown # None =>
        /\ pc = "failed"
        /\ rejection = Some(thrown[1].error)
        /\ HasStarted(thrown[1].step)
        /\ \A i \in 1..Len(started) :
             StepIndex(started[i]) <= StepIndex(thrown[1].step)

\* the install run failed in its third step, with two steps still to go
C1_Witness ==
    /\ cmd = "install"
    /\ thrown # None
    /\ thrown[1].step = InstallSteps[3]
    /\ Len(txs) = 1
    /\ rejection = Some(RpcError("execTask"))

---------------------------------------------------------------------------
(* C2 *)

C2_BaseRead == cmd = "install" /\ currentBase \notin {Undefined, ZERO_ADDRESS}

C2_EqualCase ==
    C2_BaseRead /\ SameAddress(currentBase, ctx.repo[1].contractAddress)

C2_DifferentCase ==
    C2_BaseRead /\ ~SameAddress(currentBase, ctx.repo[1].contractAddress)

C2_Names(err, v) == \E i \in 1..Len(err.names) : err.names[i] = v

\* C2 as stated: a non-zero base equal to the repo's contract address
\* (case-insensitively) raises nothing and the run goes on to 'Deploying app
\* instance'; a different base raises the version-mismatch error, whose
\* message names both the installed base and the repo's contract address.
C2_MessageNamesBothAddresses ==
    /\ C2_EqualCase =>
         /\ FailedStep # InstallSteps[2]
         /\ pc = "i_deploy" \/ HasStarted(InstallSteps[3])
    /\ C2_DifferentCase =>
         /\ FailedStep = InstallSteps[2]
         /\ thrown[1].error.kind = "Cannot install app on a different version"
         /\ C2_Names(thrown[1].error, currentBase)
         /\ C2_Names(thrown[1].error, ctx.repo[1].contractAddress)

\* C2 amended: as above, except that the message names the repo name and
\* the currently installed base address only; the resolved repo's contract
\* address does not appear in it.
C2_MessageNamesInstalledBase ==
    /\ C2_EqualCase =>
         /\ FailedStep # InstallSteps[2]
         /\ pc = "i_deploy" \/ HasStarted(InstallSteps[3])
    /\ C2_DifferentCase =>
         /\ FailedStep = InstallSteps[2]
         /\ rejection = Some(thrown[1].error)
         /\ thrown[1].error.kind = "Cannot install app on a different version"
         /\ thrown[1].error.names = << ApmRepoName, currentBase >>
         /\ ~C2_Names(thrown[1].error, ctx.repo[1].contractAddress)
         /\ ~HasStarted(InstallSteps[3])

\* the base differs from the repo's contract address and the step has thrown
C2_Witness ==
    /\ C2_DifferentCase
    /\ pc = "failed"
    /\ FailedStep = InstallSteps[2]

---------------------------------------------------------------------------
(* C3 *)

C3_OpenWithoutRoles ==
    /\ cmd = "install"
    /\ setPermissions = "open"
    /\ ctx.repo # None
    /\ ctx.repo[1].roles \in {None, Some(<< >>)}

\* C3 as stated: every install run with set-permissions 'open' on a repo
\* without roles fails with the missing-role error and never submits a
\* createPermission transaction.  (Runs that an earlier step's own failure
\* aborted are left aside.)
C3_AlwaysFailsWithMissingRoles ==
    (C3_OpenWithoutRoles /\ Finished /\ FailedStep \in {"", InstallSteps[5]})
        => /\ rejection = Some(MissingRolesError)
           /\ TxsOf("createPermission") = {}

\* C3 amended: with set-permissions 'open' and no declared role, no
\* createPermission transaction is ever submitted or started; the run fails
\* with the missing-role error whenever 'Fetching deployed app' decoded a proxy
\* address, and only then does 'Set permissions' run at all.
C3_FailsWithMissingRolesWhenProxyDecoded ==
    C3_OpenWithoutRoles =>
        /\ TxsOf("createPermission") = {}
        /\ perm = << >>
        /\ HasStarted(InstallSteps[5]) =>
             /\ ctx.appAddress # None
             /\ pc = "failed"
             /\ rejection = Some(MissingRolesError)
        /\ (ctx.appAddress # None /\ Finished
               /\ FailedStep \in {"", InstallSteps[5]})
             => rejection = Some(MissingRolesError)

\* an empty (not a missing) role list made the step throw
C3_Witness ==
    /\ C3_OpenWithoutRoles
    /\ ctx.repo[1].roles = Some(<< >>)
    /\ rejection = Some(MissingRolesError)

---------------------------------------------------------------------------
(* C4 *)

C4_SetPermissionsOff ==
    /\ cmd = "install" /\ pc = "i_perm"
    /\ ~(setPermissions = "open" /\ ctx.appAddress # None)

C4_FactoryOff ==
    /\ cmd = "token" /\ pc = "t_factory"
    /\ tokenFactoryAddress.cs \in {"lower", "upper", "checksum"}

\* C4: when the enabled-predicate of 'Set permissions' or of 'Deploy the
\* MiniMeTokenFactory contract' is false, the runner's next move leaves the
\* context and the submitted transactions as they are, starts no action of
\* that step, and goes on to the next step (or completes) without failure;
\* a step so disabled has never started, thrown or submitted anything.
C4_DisabledStepIsInert ==
    /\ [][ (C4_SetPermissionsOff =>
              /\ ctx' = ctx /\ txs' = txs /\ perm' = perm
              /\ started' = started
              /\ thrown' = None /\ rejection' = None
              /\ pc' = "done")
        /\ (C4_FactoryOff =>
              /\ ctx' = ctx /\ txs' = txs
              /\ started' = started
              /\ thrown' = None /\ rejection' = None
              /\ pc' = "t_token") ]_vars
    /\ [](\A step \in disabled :
            /\ ~HasStarted(step)
            /\ FailedStep # step
            /\ step = InstallSteps[5] => TxsOf("createPermission") = {}
            /\ step = TokenSteps[1] =>
                 /\ TxsOf("deploy MiniMeTokenFactory") = {}
                 /\ ctx.factoryAddress = None /\ ctx.factoryTxHash = None)

\* 'open' was requested but no proxy was decoded: the step was disabled and
\* the run completed
C4_Witness ==
    /\ cmd = "install" /\ pc = "done"
    /\ setPermissions = "open"
    /\ InstallSteps[5] \in disabled
    /\ ctx.receipt # None /\ ctx.appAddress = None

---------------------------------------------------------------------------
(* C5 *)

\* C5: once the token task has read the chain id, the factory address in
\* effect is the supplied value whenever a (non-empty) one was supplied, on
\* every chain; otherwise the mainnet constant on chain 1, the Rinkeby
\* constant on chain 4, and no address on any other chain.
C5_FactoryAddressInEffect ==
    (cmd = "token" /\ pc \notin {"t_task", "task_rejected"}) =>
        IF suppliedFactory \notin {Undefined, EmptyString}
        THEN tokenFactoryAddress = suppliedFactory
        ELSE CASE chainId = 1 ->
                    tokenFactoryAddress = MAINNET_MINIME_TOKEN_FACTORY
               [] chainId = 4 ->
                    tokenFactoryAddress = RINKEBY_MINIME_TOKEN_FACTORY
               [] OTHER ->
                    /\ tokenFactoryAddress \in {Undefined, EmptyString}
                    /\ ~isAddress(tokenFactoryAddress)

\* the mainnet constant was supplied on Rinkeby and kept
C5_Witness ==
    /\ cmd = "token" /\ pc = "t_factory"
    /\ chainId = 4
    /\ suppliedFactory = MAINNET_MINIME_TOKEN_FACTORY
    /\ tokenFactoryAddress = MAINNET_MINIME_TOKEN_FACTORY

---------------------------------------------------------------------------
(* C6 *)

C6_FactoryDecided ==
    /\ cmd = "token"
    /\ pc \notin {"t_task", "task_rejected", "t_factory"}
    /\ ~(FailedStep = TokenSteps[1]
           /\ thrown[1].error = RpcError("estimateGas"))

C6_FactoryDeployed == TxsOf("deploy MiniMeTokenFactory") # {}

C6_Supplied == suppliedFactory \notin {Undefined, EmptyString}

\* C6: a factory-deployment transaction is submitted only if the factory
\* address in effect after chain-id defaulting is not a valid address, and
\* (unless the gas estimation that precedes the send fails) whenever it is
\* not one; so none is deployed for a valid supplied address, nor on chain
\* 1 or 4 with none supplied, and one is deployed with none supplied on
\* another chain or with a supplied (non-empty) value that is no valid address.
C6_FactoryDeployedIffNoValidAddress ==
    /\ (cmd = "token" /\ C6_FactoryDeployed)
         => ~isAddress(tokenFactoryAddress)
    /\ C6_FactoryDecided =>
         /\ C6_FactoryDeployed <=> ~isAddress(tokenFactoryAddress)
         /\ isAddress(suppliedFactory) => ~C6_FactoryDeployed
         /\ (~C6_Supplied /\ chainId \in {1, 4}) => ~C6_FactoryDeployed
         /\ (~C6_Supplied /\ chainId \notin {1, 4}) => C6_FactoryDeployed
         /\ (C6_Supplied /\ ~isAddress(suppliedFactory))
              => C6_FactoryDeployed

\* a mixed-case value with a wrong checksum was supplied on mainnet: the
\* factory is deployed
C6_Witness ==
    /\ cmd = "token" /\ chainId = 1
    /\ suppliedFactory = V(18, "badmix")
    /\ C6_FactoryDeployed
    /\ pc = "done"

---------------------------------------------------------------------------
(* C7 *)

C7_FactoryStepRan == HasStarted(TokenSteps[1])

\* C7: a token run submits at most one token deployment, and exactly one
\* once it has got to the send of its second step; its factory argument is
\* the contract address of the factory receipt when the factory step ran in
\* this run and the supplied/defaulted address otherwise; when the factory
\* step ran, the factory deployment was submitted first and its receipt's
\* contract address was in the context before the token deployment was sent.
C7_TokenDeployedOnceWithFactory ==
    /\ [](cmd = "token" =>
            /\ Cardinality(TxsOf("deploy MiniMeToken")) <= 1
            /\ pc \in {"t_token_sent", "t_token_hashed", "done"}
                 => Cardinality(TxsOf("deploy MiniMeToken")) = 1
            /\ \A i \in TxsOf("deploy MiniMeToken") :
                 IF C7_FactoryStepRan
                 THEN /\ ctx.factoryAddress # None
                      /\ ctx.factoryAddress[1] \in DeployedAddresses
                      /\ txs[i].args[1] = ctx.factoryAddress[1]
                      /\ \E j \in TxsOf("deploy MiniMeTokenFactory") : j < i
                 ELSE /\ txs[i].args[1] = tokenFactoryAddress
                      /\ isAddress(txs[i].args[1])
                      /\ ctx.factoryAddress = None)
    /\ [][ (cmd = "token" /\ C7_FactoryStepRan
              /\ Len(txs') > Len(txs)
              /\ txs'[Len(txs')].method = "deploy MiniMeToken")
           => (ctx.factoryAddress # None /\ ctx' = ctx) ]_vars

\* the factory was deployed in this run and the token run completed
C7_Witness ==
    /\ cmd = "token" /\ pc = "done"
    /\ C7_FactoryStepRan
    /\ suppliedFactory = V(20, "text")
    /\ Cardinality(TxsOf("deploy MiniMeToken")) = 1

---------------------------------------------------------------------------
(* C8 *)

C8_Logs == ctx.receipt[1].logs

\* the logs carrying the NewAppProxy topic that the DAO itself emitted
C8_Matching ==
    { i \in 1..Len(C8_Logs) :
        /\ C8_Logs[i].topic = NewAppProxyTopic
        /\ SameAddress(C8_Logs[i].address, dao) }

C8_StepDone ==
    /\ cmd = "install"
    /\ HasStarted(InstallSteps[4])
    /\ FailedStep # InstallSteps[4]

\* C8: after 'Fetching deployed app', whenever the receipt holds a log with
\* the NewAppProxy topic emitted by the DAO address (in any letter case),
\* appAddress is the proxy address encoded in that log, the first such log
\* of the receipt; no log with another topic or another emitter is its
\* source, and without such a log appAddress stays unset.
C8_AppAddressIsProxyOfDeployLog ==
    C8_StepDone =>
        IF C8_Matching # {}
        THEN LET k == CHOOSE i \in C8_Matching :
                         \A j \in C8_Matching : i <= j
             IN /\ ctx.appAddress # None
                /\ SameAddress(ctx.appAddress[1], C8_Logs[k].data)
                /\ ctx.appAddress[1] = V(C8_Logs[k].data.hex, "checksum")
        ELSE ctx.appAddress = None

\* the DAO's log comes second, after a NewAppProxy log of another emitter
\* with another proxy, and spells the DAO address in another case
C8_Witness ==
    /\ C8_StepDone
    /\ Len(C8_Logs) = 2
    /\ C8_Matching = {2}
    /\ C8_Logs[1].topic = NewAppProxyTopic
    /\ C8_Logs[1].data # C8_Logs[2].data
    /\ C8_Logs[2].address # dao
    /\ ctx.appAddress = Some(V(C8_Logs[2].data.hex, "checksum"))

---------------------------------------------------------------------------
(* C9 *)

C9_Roles == RolesOf(ctx.repo[1])

C9_Params(i) == << ANY_ENTITY, ctx.appAddress[1], C9_Roles[i], NO_MANAGER >>

\* C9: a createPermission transaction is submitted only in 'open' mode and
\* with a proxy address decoded in this run by 'Fetching deployed app'; once
\* the step has started its transactions there is one per declared role, with
\* parameters (ANY_ENTITY, proxy, role, NO_MANAGER); every createPermission
\* submitted is the one of a declared role and none is submitted twice; and
\* when the step completes, every declared role has had exactly one.
C9_OnePermissionPerRole ==
    cmd = "install" =>
        /\ (TxsOf("createPermission") # {} \/ perm # << >>) =>
             /\ setPermissions = "open"
             /\ ctx.appAddress # None
             /\ HasStarted(InstallSteps[4])
             /\ InstallSteps[4] \notin skipped
             /\ HasStarted(InstallSteps[5])
        /\ perm # << >> =>
             /\ Len(perm) = Len(C9_Roles)
             /\ \A i \in 1..Len(perm) : perm[i].params = C9_Params(i)
        /\ \A t \in TxsOf("createPermission") :
             \E i \in 1..Len(C9_Roles) : txs[t].args = C9_Params(i)
        /\ \A t, u \in TxsOf("createPermission") :
             txs[t].args = txs[u].args => t = u
        /\ (pc = "done" /\ HasStarted(InstallSteps[5])) =>
             /\ Len(C9_Roles) > 0
             /\ \A i \in 1..Len(C9_Roles) :
                  Cardinality({ t \in TxsOf("createPermission") :
                                  txs[t].args = C9_Params(i) }) = 1

\* two roles, two createPermission transactions, the run completed
C9_Witness ==
    /\ cmd = "install" /\ pc = "done"
    /\ ctx.repo # None /\ Len(C9_Roles) = 2
    /\ Cardinality(TxsOf("createPermission")) = 2

---------------------------------------------------------------------------
(* C10 *)

C10_Rejected == { i \in 1..Len(perm) : perm[i].status = "rejected" }

\* C10: under every interleaving of the per-role transactions, the step and
\* the run complete only with every per-role transaction fulfilled; the step
\* fails at the very first rejection among them, with the error of that
\* transaction, and later rejections do not change the outcome.
C10_AllOrFirstFailure ==
    /\ [](cmd = "install" =>
            /\ (pc = "done" /\ HasStarted(InstallSteps[5])) =>
                 \A i \in 1..Len(perm) : perm[i].status = "fulfilled"
            /\ C10_Rejected # {} =>
                 /\ pc = "failed"
                 /\ FailedStep = InstallSteps[5]
                 /\ \E i \in C10_Rejected :
                      rejection = Some(PermissionError(i)))
    /\ [][ \A i \in 1..Len(perm) :
             (C10_Rejected = {} /\ perm'[i].status = "rejected") =>
                 /\ pc' = "failed"
                 /\ rejection' = Some(PermissionError(i)) ]_vars
    /\ [][ rejection # None => rejection' = rejection ]_vars

\* the second role's transaction was submitted before the first role's, and
\* the run completed
C10_Witness ==
    /\ cmd = "install" /\ pc = "done"
    /\ Len(perm) = 2
    /\ Len(txs) = 3
    /\ txs[2].args = perm[2].params
    /\ txs[3].args = perm[1].params

---------------------------------------------------------------------------
(* Vocabulary of the handler properties *)

Reported(m) == \E i \in 1..Len(reported) : reported[i] = m

ReportedText(text) == \E i \in 1..Len(reported) : reported[i].text = text

\* process.exit() was called, after every reporter call recorded
Exited == reported # << >> /\ reported[Len(reported)] = ProcessExit

---------------------------------------------------------------------------
(* C11 *)

\* step 4 has looked at a receipt that holds no NewAppProxy log emitted by
\* the DAO (the Kernel ABI having its NewAppProxy entry)
C11_NoDeployLog ==
    /\ cmd = "install"
    /\ HasStarted(InstallSteps[4])
    /\ logABI = "NewAppProxy"
    /\ \A i \in 1..Len(ctx.receipt[1].logs) :
         ~(/\ ctx.receipt[1].logs[i].topic = NewAppProxyTopic
           /\ SameAddress(ctx.receipt[1].logs[i].address, dao))

\* C11: when the receipt holds no NewAppProxy log emitted by the DAO,
\* 'Fetching deployed app' is skipped and does not fail; appAddress stays
\* unset; 'Set permissions' is disabled and never starts, whatever the
\* permissions mode; no createPermission transaction is submitted; the run
\* does not fail and completes; and the handler reports the
\* assign-permissions warning and no 'Installed ... at' success.
C11_NoDeployLogIsSoftFailure ==
    C11_NoDeployLog =>
        /\ InstallSteps[4] \in skipped
        /\ thrown = None /\ rejection = None
        /\ ctx.appAddress = None
        /\ ~HasStarted(InstallSteps[5])
        /\ perm = << >>
        /\ TxsOf("createPermission") = {}
        /\ pc \in {"i_perm", "done"}
        /\ pc = "done" => InstallSteps[5] \in disabled
        /\ handler \in {"pending", "exited"}
        /\ handler = "exited" =>
             /\ pc = "done"
             /\ reported[2] = AssignPermissionsWarning
             /\ ~ReportedText("Installed at")
             /\ Exited

\* 'open' was requested, the receipt held a NewAppProxy log of another
\* kernel only, and the handler has reported
C11_Witness ==
    /\ C11_NoDeployLog
    /\ setPermissions = "open"
    /\ Len(ctx.receipt[1].logs) = 1
    /\ ctx.receipt[1].logs[1].topic = NewAppProxyTopic
    /\ handler = "exited"
    /\ Reported(AssignPermissionsWarning)

---------------------------------------------------------------------------
(* C12 *)

\* C12 as stated: in both commands, once the run has finished and the
\* handler is through with it, the handler has terminated the process: after
\* the success messages on a successful run, and after a report of the
\* failure on a failed one.
C12_HandlerAlwaysExits ==
    (Finished /\ handler # "pending") =>
        /\ Exited
        /\ Len(reported) > 1
        /\ pc = "failed" => reported[1].level = "error"

\* C12 amended: in both commands the handler terminates the process after
\* a successful run only, having first reported the success messages, and
\* nothing happens after that exit; after a failed run (or a failed task
\* construction) the handler makes no reporter call and does not exit: the
\* promise it returned is rejected and the process is left running.
C12_HandlerExitsAfterSuccessOnly ==
    /\ [](/\ handler = "exited" <=> reported # << >>
          /\ handler = "exited" =>
               /\ pc = "done" /\ thrown = None /\ rejection = None
               /\ Exited
               /\ \A i \in 1..(Len(reported) - 1) :
                    reported[i].level \in {"info", "success", "warning"}
               /\ Len(reported) >= 3
               /\ reported[1] =
                    IF cmd = "install"
                    THEN Msg("info", "Successfully executed",
                             << ctx.transactionPath[1][1] >>)
                    ELSE Msg("success", "Successfully deployed the token at",
                             << ctx.tokenAddress[1] >>)
          /\ pc \in {"failed", "task_rejected"} =>
               /\ handler \in {"pending", "rejected"}
               /\ reported = << >>
          /\ handler = "rejected" => pc \in {"failed", "task_rejected"})
    /\ [][ handler # "exited" ]_vars
    /\ [][ (Finished /\ handler = "pending") =>
             (handler' = "pending" \/
              handler' = (IF pc = "done" THEN "exited" ELSE "rejected")) ]_vars

\* the token run failed after its factory was deployed; the handler's
\* promise rejected, nothing was reported and the process was not exited
C12_Witness ==
    /\ cmd = "token" /\ pc = "failed"
    /\ FailedStep = TokenSteps[2]
    /\ ctx.factoryAddress # None
    /\ handler = "rejected"
    /\ reported = << >>

---------------------------------------------------------------------------
(* C13 *)

\* the step whose action is under way, if any
C13_Active ==
    CASE pc \in {"i_exec", "i_send"} -> {InstallSteps[3]}
      [] pc = "i_perm_wait" -> {InstallSteps[5]}
      [] pc \in {"t_factory_sent", "t_factory_hashed"} -> {TokenSteps[1]}
      [] pc \in {"t_token_sent", "t_token_hashed"} -> {TokenSteps[2]}
      [] OTHER -> {}

\* the step that this move starts
C13_Starting == started'[Len(started')]

\* a step starts only when no step is under way and none has failed, and
\* when every step declared before it has started (and so completed or
\* skipped itself) or was disabled
C13_StartsInOrder ==
    /\ Len(started') = Len(started) + 1
    /\ \A i \in 1..Len(started) : started'[i] = started[i]
    /\ C13_Active = {}
    /\ thrown = None
    /\ \A i \in 1..Len(started) :
         StepIndex(started[i]) < StepIndex(C13_Starting)
    /\ \A j \in 1..(StepIndex(C13_Starting) - 1) :
         HasStarted(Steps[j]) \/ Steps[j] \in disabled

\* the context fields the install steps read are set when the step starts
C13_InstallReadsWritten ==
    /\ C13_Starting \in {InstallSteps[2], InstallSteps[3], InstallSteps[5]}
         => (ctx.repo # None /\ HasStarted(InstallSteps[1]))
    /\ C13_Starting = InstallSteps[4]
         => (ctx.receipt # None /\ HasStarted(InstallSteps[3]))
    /\ C13_Starting = InstallSteps[5]
         => (ctx.appAddress # None /\ HasStarted(InstallSteps[4]))

C13_Sequential ==
    /\ Cardinality(C13_Active) <= 1
    /\ \A i, j \in 1..Len(started) :
         i < j => StepIndex(started[i]) < StepIndex(started[j])
    /\ skipped \subseteq { started[i] : i \in 1..Len(started) }
    /\ \A step \in disabled : ~HasStarted(step)
    /\ \A step \in C13_Active : started[Len(started)] = step

\* C13 as stated: in both pipelines the steps start in declaration order,
\* one at a time, each only after the one before it has completed, skipped
\* itself or been disabled; and every context field a step reads was
\* written by an earlier step before the read: repo for steps 2, 3 and 5,
\* receipt for step 4, appAddress for step 5, factoryAddress for the token
\* step.
C13_EveryReadFieldWasWritten ==
    /\ []C13_Sequential
    /\ [][ started' # started =>
             /\ C13_StartsInOrder
             /\ cmd = "install" => C13_InstallReadsWritten
             /\ C13_Starting = TokenSteps[2] =>
                  (ctx.factoryAddress # None /\ HasStarted(TokenSteps[1])) ]_vars

\* C13 amended: as above for the order of the steps and for repo, receipt
\* and appAddress; factoryAddress has been written by the factory step
\* before the token step reads it exactly when the factory step ran in this
\* run; when that step was disabled the token step reads an unset
\* factoryAddress and uses the supplied or defaulted address instead.
C13_OrderedAndWrittenWhenStepRan ==
    /\ []C13_Sequential
    /\ [][ started' # started =>
             /\ C13_StartsInOrder
             /\ cmd = "install" => C13_InstallReadsWritten
             /\ C13_Starting = TokenSteps[2] =>
                  /\ ctx.factoryAddress # None <=> HasStarted(TokenSteps[1])
                  /\ ctx.factoryAddress = None <=> TokenSteps[1] \in disabled
                  /\ ctx.factoryAddress = None =>
                       /\ tokenFactoryAddress.cs \in
                            {"lower", "upper", "checksum"}
                       /\ Len(txs') > Len(txs) =>
                            txs'[Len(txs')].args[1] = tokenFactoryAddress ]_vars

\* the token step has started with the factory step disabled and no
\* factoryAddress in the context
C13_Witness ==
    /\ cmd = "token"
    /\ started = << TokenSteps[2] >>
    /\ TokenSteps[1] \in disabled
    /\ ctx.factoryAddress = None
    /\ Len(txs) = 1

---------------------------------------------------------------------------
(* C14 *)

\* step 2 has read a zero base address from the kernel
C14_ZeroBase == cmd = "install" /\ currentBase = [hex |-> 0, cs |-> "lower"]

\* C14: when the base registered in the DAO for the app is the zero
\* address, 'Checking installed version' skips itself: it raises no
\* version-mismatch error whatever the repo's contract address is, it leaves
\* the context (and the submitted transactions) as they were, and the run
\* goes on to 'Deploying app instance', which submits the newAppInstance
\* transaction once its transaction path is computed.
C14_ZeroBaseSkipsCheck ==
    /\ [](C14_ZeroBase =>
            /\ InstallSteps[2] \in skipped
            /\ FailedStep # InstallSteps[2]
            /\ thrown # None =>
                 thrown[1].error.kind
                     # "Cannot install app on a different version"
            /\ ~SameAddress(currentBase, ctx.repo[1].contractAddress)
            /\ pc = "i_deploy" \/ HasStarted(InstallSteps[3])
            /\ pc \in {"i_send", "i_decode", "i_perm", "i_perm_wait", "done"}
                 => \E t \in TxsOf("newAppInstance") : t = 1)
    /\ [][ (pc = "i_check" /\ currentBase' = [hex |-> 0, cs |-> "lower"]) =>
             /\ ctx' = ctx /\ txs' = txs
             /\ thrown' = None /\ rejection' = None
             /\ pc' = "i_deploy" ]_vars

\* the base was zero, the check skipped itself and the newAppInstance
\* transaction for the repo's (non-zero) contract address was submitted
C14_Witness ==
    /\ C14_ZeroBase
    /\ InstallSteps[2] \in skipped
    /\ Len(txs) = 1 /\ txs[1].method = "newAppInstance"
    /\ txs[1].args[2] = ctx.repo[1].contractAddress
    /\ txs[1].args[2].hex # 0
    /\ pc = "i_send"

---------------------------------------------------------------------------
(* C15 *)

\* step 4 found no event entry named NewAppProxy in the Kernel ABI
C15_NoLogABI == cmd = "install" /\ logABI = "undefined"

\* C15: when the Kernel ABI has no NewAppProxy event entry, 'Fetching
\* deployed app' throws the missing-ABI-entry error whatever the receipt
\* holds: the step is not skipped, appAddress is never set, 'Set
\* permissions' neither runs nor is looked at, no createPermission
\* transaction is submitted, run() rejects with that error, and the handler
\* reports nothing (no warning) and does not complete.
C15_MissingLogABIAborts ==
    C15_NoLogABI =>
        /\ pc = "failed"
        /\ FailedStep = InstallSteps[4]
        /\ thrown[1].error =
             Err("Kernel ABI in aragon.js doesnt contain NewAppProxy log",
                 << >>)
        /\ rejection = Some(thrown[1].error)
        /\ InstallSteps[4] \notin skipped
        /\ ctx.appAddress = None
        /\ ~HasStarted(InstallSteps[5])
        /\ InstallSteps[5] \notin disabled
        /\ perm = << >>
        /\ TxsOf("createPermission") = {}
        /\ handler \in {"pending", "rejected"}
        /\ reported = << >>

\* the ABI entry was missing although the receipt held the DAO's log and
\* 'open' was requested; the handler's promise rejected
C15_Witness ==
    /\ C15_NoLogABI
    /\ setPermissions = "open"
    /\ \E i \in 1..Len(ctx.receipt[1].logs) :
         /\ ctx.receipt[1].logs[i].topic = NewAppProxyTopic
         /\ SameAddress(ctx.receipt[1].logs[i].address, dao)
    /\ rejection = Some(MissingLogABIError)
    /\ handler = "rejected"

---------------------------------------------------------------------------
(* C16 *)

\* step 2 has read a non-zero base that is not the repo's contract address
C16_Mismatch ==
    /\ cmd = "install"
    /\ currentBase.cs \in {"lower", "checksum"} /\ currentBase.hex # 0
    /\ currentBase.hex # ctx.repo[1].contractAddress.hex

\* C16: in every install run a newAppInstance transaction is submitted
\* only after 'Checking installed version' has skipped itself on a zero base
\* or passed on equal addresses; with a non-zero base that differs from the
\* repo's contract address the run fails in that step and no newAppInstance
\* and no createPermission transaction is ever submitted.
C16_NoInstallOnOtherVersion ==
    /\ (cmd = "install" /\ txs # << >>) =>
         /\ txs[1].method = "newAppInstance"
         /\ HasStarted(InstallSteps[2])
         /\ FailedStep # InstallSteps[2]
         /\ \/ currentBase.hex = 0 /\ currentBase.cs = "lower"
                 /\ InstallSteps[2] \in skipped
            \/ currentBase.hex = ctx.repo[1].contractAddress.hex
                 /\ InstallSteps[2] \notin skipped
    /\ C16_Mismatch =>
         /\ pc = "failed"
         /\ FailedStep = InstallSteps[2]
         /\ txs = << >>
         /\ perm = << >>
         /\ started = << InstallSteps[1], InstallSteps[2] >>

\* another version is installed: the run failed in step 2, nothing was
\* submitted and the handler's promise rejected
C16_Witness ==
    /\ C16_Mismatch
    /\ currentBase.cs = "checksum"
    /\ txs = << >>
    /\ handler = "rejected"

---------------------------------------------------------------------------
(* C17 *)

\* the per-role transactions whose state this move changes
C17_Changed == { j \in 1..Len(perm) : perm'[j] # perm[j] }

\* a per-role transaction only moves forward: it is sent, then mined, or
\* it fails; it is never taken back
C17_Forward(j) ==
    /\ perm'[j].params = perm[j].params
    /\ << perm[j].status, perm'[j].status >> \in
         { << "started", "sent" >>, << "sent", "fulfilled" >>,
           << "started", "rejected" >>, << "sent", "rejected" >> }

\* C17: a failure triggers no compensating action.  Once a step has failed
\* the pipeline starts no step and no per-role task, retries nothing and
\* leaves the context alone; no submitted transaction is ever removed or
\* taken back; the only transactions still submitted are the
\* createPermission transactions of per-role tasks that step 5 had already
\* started when it failed; the failure of one per-role transaction changes
\* no other one, which may still be mined afterwards.
C17_NoCompensatingAction ==
    /\ [][ /\ Len(txs') >= Len(txs)
           /\ \A k \in 1..Len(txs) : txs'[k] = txs[k]
           /\ perm # << >> =>
                /\ Len(perm') = Len(perm)
                /\ Cardinality(C17_Changed) <= 1
                /\ \A j \in C17_Changed : C17_Forward(j)
           /\ thrown # None =>
                /\ thrown' = thrown /\ rejection' = rejection
                /\ pc' = pc /\ started' = started /\ ctx' = ctx
                /\ skipped' = skipped /\ disabled' = disabled
                /\ reported' = << >>
                /\ Len(perm') = Len(perm)
                /\ txs' # txs =>
                     /\ FailedStep = InstallSteps[5]
                     /\ Len(txs') = Len(txs) + 1
                     /\ \E j \in 1..Len(perm) :
                          /\ perm[j].status = "started"
                          /\ perm'[j].status = "sent"
                          /\ txs'[Len(txs')] =
                               [method |-> "createPermission",
                                args |-> perm[j].params] ]_vars
    /\ [](\A j \in 1..Len(perm) :
            /\ perm[j].status \in {"sent", "fulfilled"} =>
                 \E t \in TxsOf("createPermission") :
                     txs[t].args = perm[j].params
            /\ perm[j].late => FailedStep = InstallSteps[5])

\* the first role's transaction failed and failed the run; the second
\* role's transaction was mined after that: the instance is deployed and one
\* of the two roles is granted
C17_Witness ==
    /\ cmd = "install" /\ pc = "failed"
    /\ FailedStep = InstallSteps[5]
    /\ txs[1].method = "newAppInstance"
    /\ ctx.appAddress # None
    /\ Len(perm) = 2
    /\ perm[1].status = "rejected"
    /\ perm[2].status = "fulfilled" /\ perm[2].late
    /\ rejection = Some(PermissionError(1))

---------------------------------------------------------------------------
(* C18 *)

\* 'Set permissions' is about to run its action, or has started
C18_InSetPermissions ==
    /\ cmd = "install"
    /\ \/ pc = "i_perm" /\ setPermissions = "open" /\ ctx.appAddress # None
       \/ HasStarted(InstallSteps[5])

\* the first log of the receipt with the NewAppProxy topic and the DAO as
\* its emitter
C18_DeployLog ==
    LET logs == ctx.receipt[1].logs
        m == { i \in 1..Len(logs) :
                 /\ logs[i].topic = NewAppProxyTopic
                 /\ SameAddress(logs[i].address, dao) }
    IN logs[CHOOSE i \in m : \A j \in m : i <= j]

\* C18: across the whole 'Set permissions' step, under every interleaving
\* of the per-role transactions, the only context field that changes is
\* accounts, which is set at most once, when unset, before the transactions
\* start; so after a successful run the context still holds the
\* transaction path of the newAppInstance deployment and the proxy decoded
\* from its receipt, and these are what the handler reports.
C18_PermissionTxsLeaveContext ==
    /\ [][ C18_InSetPermissions =>
             /\ \A f \in (DOMAIN ctx) \ {"accounts"} : ctx'[f] = ctx[f]
             /\ ctx.accounts # None => ctx'.accounts = ctx.accounts
             /\ ctx'.accounts # ctx.accounts => (pc = "i_perm" /\ perm = << >>)
         ]_vars
    /\ []((cmd = "install" /\ handler = "exited") =>
            /\ txs[1].method = "newAppInstance"
            /\ ctx.transactionPath = Some(<< txs[1] >>)
            /\ reported[1].names = << txs[1] >>
            /\ ctx.receipt # None
            /\ ctx.appAddress # None =>
                 /\ ctx.appAddress[1].hex = C18_DeployLog.data.hex
                 /\ reported[2].text = "Installed at"
                 /\ reported[2].names[2] = ctx.appAddress[1]
            /\ \A i \in 1..Len(reported) :
                 \A k \in 1..Len(reported[i].names) :
                 reported[i].names[k] \notin
                     { txs[t] : t \in TxsOf("createPermission") })

\* two per-role transactions were mined, the accounts were fetched by the
\* step, and the handler reported the deployment's path and the proxy
C18_Witness ==
    /\ cmd = "install" /\ handler = "exited"
    /\ Len(perm) = 2
    /\ \A i \in 1..2 : perm[i].status = "fulfilled"
    /\ Len(txs) = 3
    /\ reported[1].names[1].method = "newAppInstance"
    /\ reported[2].text = "Installed at"

---------------------------------------------------------------------------
(* C19 *)

\* 'Deploying app instance' has encoded its init payload
C19_PayloadEncoded == cmd = "install" /\ initPayload.cs # "undefined"

\* C19: notInitialized is set in 'Deploying app instance' exactly when the
\* encoded init payload is '0x' and is unset before that step; every
\* newAppInstance transaction carries (appId, repo contract address,
\* payload, false), with an empty payload as with a non-empty one, and there
\* is one once the step's transaction path is computed; after a successful
\* run the handler emits the not-initialized warning exactly when the flag
\* is set.
C19_NotInitializedIffEmptyPayload ==
    cmd = "install" =>
        /\ ~C19_PayloadEncoded => (~ctx.notInitialized /\ txs = << >>)
        /\ C19_PayloadEncoded =>
             (ctx.notInitialized <=> initPayload.cs = "0x")
        /\ \A t \in TxsOf("newAppInstance") :
             /\ t = 1
             /\ txs[t].args = << ctx.repo[1].appId,
                                 ctx.repo[1].contractAddress,
                                 initPayload,
                                 [hex |-> 0, cs |-> "false"] >>
        /\ HasStarted(InstallSteps[4]) => TxsOf("newAppInstance") = {1}
        /\ handler = "exited" =>
             /\ (\E i \in 1..Len(reported) :
                    /\ reported[i].level = "warning"
                    /\ reported[i].text = "App could not be initialized")
                <=> ctx.notInitialized
             /\ Cardinality({ i \in 1..Len(reported) :
                    reported[i].text = "App could not be initialized" }) <= 1

\* the payload was empty: the transaction was submitted with '0x', the
\* run completed and the handler warned
C19_Witness ==
    /\ C19_PayloadEncoded
    /\ handler = "exited"
    /\ txs[1].args[3] = EmptyPayload
    /\ ctx.notInitialized
    /\ Reported(NotInitializedWarning)

====
